---- MODULE Spec2Model ----
(***************************************************************************)
(* The UID-stable Maildir store (async_storage.MaildirWrapper) and the     *)
(* IMAP server built on it (server/imap_server.py).                        *)
(*                                                                         *)
(* One user's mailbox root is modelled, with its INBOX maildir and its     *)
(* registry file .uid_mapping.  Every command and every SMTP delivery      *)
(* builds its own MaildirWrapper (server/imap_server.py:254-257, 373-375,  *)
(* 519; server/smtp_server.py:133, 143), so a wrapper lives inside one     *)
(* task, and tasks interleave at the awaits of the code.  The wrapper's    *)
(* threading.RLock (async_storage.py:46) is taken and released inside the  *)
(* thread calls that list the keys or add a file (async_storage.py:150,    *)
(* 190): it belongs to one wrapper and is never held across a step.        *)
(*                                                                         *)
(* Spec         store operations of several tasks overlap freely (within   *)
(*              one clock second).                                         *)
(* SpecSeq      one store operation at a time; message files still appear  *)
(*              and disappear between its steps, the clock runs, the       *)
(*              process may be cancelled or restarted at any await.        *)
(* SpecFetch    one FETCH or UID FETCH at a time, message files appearing  *)
(*              and disappearing between its steps.                        *)
(* SpecSession  one connection of IMAPHandler.handle_client: the lines the *)
(*              client sends, the session context, the lines written.      *)
(* SpecObserved the tasks of Spec, the UIDNEXT values given to the first   *)
(*              task's commands being recorded.                            *)
(* SpecSelect   the coroutines asyncio.gather runs on SELECT's one wrapper *)
(*              (server/imap_server.py:380-386).                           *)
(* SpecItems    FETCH and UID FETCH commands that run alone, with the data *)
(*              items of their response lines and the flags of the files.  *)
(* SpecList     connections that authenticate and send LIST commands, the  *)
(*              arguments being kept with the answer.                      *)
(* SpecFirstFetch  the first FETCH or UID FETCH of a connection, message   *)
(*              files appearing and disappearing between its steps.        *)
(* SpecUnseen   SELECT's reconcile and first-unseen query, run alone, with *)
(*              the flags of the files.                                    *)
(* SpecData     the messages SMTPHandler.handle_DATA accepts and the       *)
(*              folders it saves them in.                                  *)
(***************************************************************************)
EXTENDS Integers, Sequences, FiniteSets, TLC

\* ------------------------------------------------------------------ bounds
MaxKeys == 2       \* message files ever created in the folder
MaxClock == 1      \* int(time.time()) runs over 0..MaxClock
MaxTasks == 2      \* tasks (commands, deliveries) in the process
HashMod == 2       \* stands for the 1000 of abs(hash(folder_key)) % 1000
MaxCmds == 3       \* command lines one connection sends
MaxData == 2       \* messages the SMTP handler accepts

Tasks == 1..MaxTasks
MaxUid == MaxKeys + 1

VARIABLES
    keys,       \* keys of the message files now in new/ and cur/ of the folder
    made,       \* number of message files created so far (Maildir names are unique)
    file,       \* the registry file .uid_mapping
    clock,      \* int(time.time())
    salt,       \* abs(hash(folder_key)) % 1000 of the running process
    tk,         \* tk[t]: the task's operation, position and its wrapper's fields
    resp,       \* the response the last finished FETCH returned
    seen,       \* history: seen[k] = the first UID a finished operation reported for k
    moved,      \* history: a key was later reported with another UID
    clash,      \* history: a UID was later reported for another key
    issuedMax,  \* history: largest uidvalidity written to the file so far
    rebuilt,    \* history: the last rebuild, <<uidvalidity chosen, issuedMax then>>
    view,       \* history: registry as the last finished command held it
    before,     \* history: view at the last restart
    track,      \* the histories a specification records (fixed by its Init)
    context,    \* IMAPContext of the connection
    conn,       \* where handle_client stands
    out,        \* the lines written to the connection, in order
    cmds,       \* command lines read so far
    obs,        \* history: the UIDNEXT values the first task's commands returned
    heap,       \* SELECT's wrapper: the registry dicts its coroutines loaded
    selfp,      \* SELECT's wrapper: which dict self._uid_data refers to (0: None)
    co,         \* SELECT's wrapper: the coroutines of asyncio.gather
    sel,        \* the SELECT in progress and what the last one reported
    last,       \* the command word of the last line read, the context it met
    mail,       \* mail[k]: flags and subdirectory (new/cur) of message file k
    reply,      \* the FETCH response _handle_fetch_command built last
    first_unseen, \* what get_first_unseen_seq gave the SELECT being answered
    boxes,      \* boxes[<<user, folder>>]: messages saved in the folder by SMTP
    envelope    \* the envelope of the last message handle_DATA accepted

store == <<keys, made, file>>
env == <<clock, salt>>
reports == <<seen, moved, clash, obs>>
validity == <<issuedMax, rebuilt>>
views == <<view, before>>
session == <<context, conn, out, cmds, last>>
gather == <<heap, selfp, co, sel>>
fetched == <<mail, reply, first_unseen>>
delivery == <<boxes, envelope>>
storage == <<keys, made, file, clock, salt, tk, resp, seen, moved, clash,
             issuedMax, rebuilt, view, before, track, obs, heap, selfp, co, sel,
             mail, reply, first_unseen, boxes, envelope>>
vars == <<keys, made, file, clock, salt, tk, resp, seen, moved, clash,
          issuedMax, rebuilt, view, before, track, context, conn, out, cmds,
          obs, heap, selfp, co, sel, last, mail, reply, first_unseen, boxes,
          envelope>>

\* --------------------------------------------------------------- registry
FolderKey == "INBOX"

None == [none |-> TRUE]
NoView == [noview |-> TRUE]
EmptyMap == << >>

MissingFile == [st |-> "missing"]
TruncatedFile == [st |-> "truncated"]
JsonFile(doc) == [st |-> "json", doc |-> doc]

Restrict(f, S) == [x \in S |-> f[x]]
Put(f, k, v) == [x \in (DOMAIN f) \cup {k} |-> IF x = k THEN v ELSE f[x]]
Range(f) == {f[x] : x \in DOMAIN f}

\* json renders the int keys of uid_to_key as strings; int() reads them back
IntToStr(n) == ToString(n)
StrToInt(s) == CHOOSE n \in 0..(MaxUid + 1) : ToString(n) = s

DumpFolder(fd) ==
    [uidvalidity |-> fd.uidvalidity,
     uidnext |-> fd.uidnext,
     key_to_uid |-> fd.key_to_uid,
     uid_to_key |-> [s \in {IntToStr(u) : u \in DOMAIN fd.uid_to_key}
                        |-> fd.uid_to_key[StrToInt(s)]]]

Dumps(data) ==
    [folders |-> [f \in DOMAIN data.folders |-> DumpFolder(data.folders[f])]]

FixFolder(jd) ==
    [uidvalidity |-> jd.uidvalidity,
     uidnext |-> jd.uidnext,
     key_to_uid |-> jd.key_to_uid,
     uid_to_key |-> [u \in {StrToInt(s) : s \in DOMAIN jd.uid_to_key}
                        |-> jd.uid_to_key[IntToStr(u)]]]

\* a missing file, and a file json.loads cannot parse, give {'folders': {}}
LoadUidData(f) ==
    IF f.st = "json"
    THEN [folders |-> [k \in DOMAIN f.doc.folders |-> FixFolder(f.doc.folders[k])]]
    ELSE [folders |-> EmptyMap]

NewFolderData(now, offset) ==
    [uidvalidity |-> now + offset,
     uidnext |-> 1,
     key_to_uid |-> EmptyMap,
     uid_to_key |-> EmptyMap]

FolderOf(data) == data.folders[FolderKey]
WithFolder(data, fd) == [data EXCEPT !.folders = Put(data.folders, FolderKey, fd)]

\* ---------------------------------------------------------- reconciliation
DeletedKeys(fd, current) == (DOMAIN fd.key_to_uid) \ current
NewKeys(fd, current) == current \ (DOMAIN fd.key_to_uid)

RemoveDeletedKeyOnly(fd, deleted) ==
    [fd EXCEPT
        !.key_to_uid = Restrict(fd.key_to_uid, (DOMAIN fd.key_to_uid) \ deleted)]

RemoveDeleted(fd, deleted) ==
    LET gone == {fd.key_to_uid[k] : k \in {d \in deleted : fd.key_to_uid[d] # 0}}
    IN  [fd EXCEPT
            !.key_to_uid = Restrict(fd.key_to_uid, (DOMAIN fd.key_to_uid) \ deleted),
            !.uid_to_key = Restrict(fd.uid_to_key, (DOMAIN fd.uid_to_key) \ gone)]

AssignUidNoAdvance(fd, key) ==
    [fd EXCEPT
        !.key_to_uid = Put(fd.key_to_uid, key, fd.uidnext),
        !.uid_to_key = Put(fd.uid_to_key, fd.uidnext, key)]

AssignUid(fd, key) ==
    [fd EXCEPT
        !.key_to_uid = Put(fd.key_to_uid, key, fd.uidnext),
        !.uid_to_key = Put(fd.uid_to_key, fd.uidnext, key),
        !.uidnext = fd.uidnext + 1]

RECURSIVE AssignAll(_, _)
AssignAll(fd, order) ==
    IF order = << >> THEN fd
    ELSE AssignAll(AssignUid(fd, Head(order)), Tail(order))

\* the iteration order of the Python set new_keys is not fixed
Orders(S) ==
    {o \in [1..Cardinality(S) -> S] : \A i, j \in 1..Cardinality(S) : o[i] = o[j] => i = j}

SyncUids(fd, current, order) ==
    AssignAll(RemoveDeleted(fd, DeletedKeys(fd, current)), order)

SyncChangedNewOnly(fd, current) ==
    NewKeys(fd, current) # {}

SyncChanged(fd, current) ==
    DeletedKeys(fd, current) # {} \/ NewKeys(fd, current) # {}

SaveAssign(fd, key) == AssignUid(fd, key)

\* ------------------------------------------------------------ FETCH sets
\* A sequence set or UID set is the list of its comma-separated parts; a part
\* is the list of its colon-separated tokens; a token is '*', or text int()
\* reads as n, or text int() rejects.
Star == [kind |-> "star", n |-> 0]
Num(n) == [kind |-> "num", n |-> n]
Junk == [kind |-> "junk", n |-> 0]

Min2(a, b) == IF a < b THEN a ELSE b
Max2(a, b) == IF a > b THEN a ELSE b

RECURSIVE SortSet(_)
SortSet(S) ==
    IF S = {} THEN << >>
    ELSE LET m == CHOOSE x \in S : \A y \in S : x <= y
         IN  <<m>> \o SortSet(S \ {m})

PartInvalid(part) ==
    \/ Len(part) > 2
    \/ \E i \in 1..Len(part) : part[i].kind = "junk"

UidPart(part, max_uid, has_messages) ==
    IF Len(part) = 2
    THEN LET start_uid == IF part[1].kind = "star"
                          THEN (IF has_messages THEN max_uid ELSE 0)
                          ELSE part[1].n
             end_uid == IF part[2].kind = "star" THEN max_uid ELSE part[2].n
         IN  start_uid..end_uid
    ELSE IF part[1].kind = "star"
    THEN {IF has_messages THEN max_uid ELSE 0}
    ELSE {part[1].n}

\* "Invalid UID set" is the result INVALID
INVALID == <<-1>>

ParseUidSet(uids, max_uid, has_messages) ==
    IF \E i \in 1..Len(uids) : PartInvalid(uids[i])
    THEN INVALID
    ELSE SortSet(UNION {UidPart(uids[i], max_uid, has_messages) : i \in 1..Len(uids)})

\* a variant that reads '*' as the first message
SeqPartStarFirst(part, max_seq) ==
    IF Len(part) = 2
    THEN LET s0 == IF part[1].kind = "star" THEN 1 ELSE part[1].n
             e0 == IF part[2].kind = "star" THEN 1 ELSE part[2].n
             start_seq == Max2(1, Min2(s0, max_seq))
             end_seq == Max2(1, Min2(e0, max_seq))
         IN  start_seq..end_seq
    ELSE IF part[1].kind = "star"
    THEN {1}
    ELSE {n \in {part[1].n} : 1 <= n /\ n <= max_seq}

SeqPart(part, max_seq) ==
    IF Len(part) = 2
    THEN LET s0 == IF part[1].kind = "star" THEN max_seq ELSE part[1].n
             e0 == IF part[2].kind = "star" THEN max_seq ELSE part[2].n
             start_seq == Max2(1, Min2(s0, max_seq))
             end_seq == Max2(1, Min2(e0, max_seq))
         IN  start_seq..end_seq
    ELSE IF part[1].kind = "star"
    THEN {max_seq}
    ELSE {n \in {part[1].n} : 1 <= n /\ n <= max_seq}

ParseSequenceSet(sequences, max_seq) ==
    IF \E i \in 1..Len(sequences) : PartInvalid(sequences[i])
    THEN INVALID
    ELSE SortSet(UNION {SeqPart(sequences[i], max_seq) : i \in 1..Len(sequences)})

\* message_pairs: the (uid, key) pairs sorted by uid
SortedPairs(pairs) ==
    LET us == SortSet({p[1] : p \in pairs})
    IN  [i \in 1..Len(us) |-> CHOOSE p \in pairs : p[1] = us[i]]

\* a variant that takes the UID for the sequence number
UidToSeqIsUid(message_pairs, uid) == uid

\* uid_to_seq.get(uid, -1)
UidToSeq(message_pairs, uid) ==
    IF \E i \in 1..Len(message_pairs) : message_pairs[i][1] = uid
    THEN CHOOSE i \in 1..Len(message_pairs) : message_pairs[i][1] = uid
    ELSE -1

TargetsFromSeqList(seq_list, message_pairs) ==
    LET ok == SelectSeq(seq_list, LAMBDA s : 1 <= s /\ s <= Len(message_pairs))
    IN  [i \in 1..Len(ok) |-> <<ok[i], message_pairs[ok[i]][1], message_pairs[ok[i]][2]>>]

\* _get_targets_from_uid_list when the folder does not change meanwhile
TargetsFromUidList(uid_list, fd, message_pairs) ==
    LET ok == SelectSeq(uid_list, LAMBDA u : u \in DOMAIN fd.uid_to_key)
    IN  [i \in 1..Len(ok) |->
            <<UidToSeq(message_pairs, ok[i]), ok[i], fd.uid_to_key[ok[i]]>>]

\* a variant that writes a line for every target
FetchLinesAll(targets, current) == targets

\* _handle_fetch_command: one line for every target whose message still loads
FetchLines(targets, current) ==
    SelectSeq(targets, LAMBDA g : g[3] \in current)

\* the sets the model draws FETCH arguments from
FetchArgs ==
    { <<<<Num(1), Star>>>>,      \* 1:*
      <<<<Star>>>>,              \* *
      <<<<Num(2)>>>>,            \* 2
      <<<<Junk>>>> }             \* x

\* ------------------------------------------------------------ fetch items
\* a message file as Maildir delivers it: in new/, without flags
NewMail == [k \in 1..MaxKeys |-> [flags |-> {}, subdir |-> "new"]]

NoReply ==
    [is_uid |-> FALSE, arg |-> << >>, items |-> << >>, status |-> "none",
     lines |-> << >>, prev |-> << >>]

\* the item lists the model lets clients ask for
ItemLists ==
    { <<"FLAGS">>, <<"UID">>, <<"uid", "FLAGS">>, <<"UID", "UID">>,
      <<"BODY[]">>, <<"BODY.PEEK[]">>, <<"RFC822">>, <<"XYZ">>, <<"FAST">> }

\* item.upper()
UpperItem(item) == IF item = "uid" THEN "UID" ELSE item

\* the macro expansion of _handle_fetch_command
Macros(items) ==
    IF Len(items) = 1 /\ UpperItem(items[1]) = "FAST"
    THEN <<"FLAGS", "INTERNALDATE", "RFC822.SIZE">>
    ELSE items

\* the items Fetcher.handle_fetch_item has a handler for
Implemented(item) ==
    UpperItem(item) \in {"FLAGS", "INTERNALDATE", "RFC822.SIZE", "RFC822",
                         "BODY[]", "BODY.PEEK[]"}

\* DataGetters.get_flags: \Recent for a message in new/, then its flags
GetFlags(message) ==
    message.flags \cup (IF message.subdir = "new" THEN {"Recent"} ELSE {})

\* one item of a response line: the item name as the client wrote it, and
\* the UID or the flags that follow it
HandleFetchItem(item, message) ==
    [item |-> item, uid |-> 0,
     flags |-> IF UpperItem(item) = "FLAGS" THEN GetFlags(message) ELSE {}]

\* the response lines for one message: none when no item produced output
HandleFetchMessage(seq_num, uid, key, message, items, is_uid_fetch) ==
    LET kept == SelectSeq(items, LAMBDA it : UpperItem(it) = "UID" \/ Implemented(it))
        fetch_items ==
            [i \in 1..Len(kept) |->
                IF UpperItem(kept[i]) = "UID"
                THEN [item |-> kept[i], uid |-> uid, flags |-> {}]
                ELSE HandleFetchItem(kept[i], message)]
        with_uid ==
            IF is_uid_fetch
               /\ ~\E i \in 1..Len(fetch_items) : UpperItem(fetch_items[i].item) = "UID"
            THEN <<[item |-> "UID", uid |-> uid, flags |-> {}]>> \o fetch_items
            ELSE fetch_items
    IN  IF fetch_items = << >>
        THEN << >>
        ELSE <<[seq |-> seq_num, uid |-> uid, key |-> key, items |-> with_uid]>>

\* the message files after the message of key got the S flag: the message
\* is written back with the subdirectory it was read with
MarkSeen(m, key) == [m EXCEPT ![key].flags = @ \cup {"S"}]

ReadMessageMarkingSeen(m, key, items) == MarkSeen(m, key)

\* the message files after _handle_fetch_command has read the message of
\* key: it calls get_message_safe whatever the items are
ReadMessage(m, key, items) == m

\* no SELECT is being answered
NotAsked == [asked |-> FALSE, seq |-> 0]

\* get_first_unseen_seq: the position, from 1, in the listing maildir.keys()
\* of the first message without the S flag; 0 stands for None
GetFirstUnseenSeq(keys_list, m) ==
    LET idx == {i \in 1..Len(keys_list) : "S" \notin m[keys_list[i]].flags}
    IN  IF idx = {} THEN 0 ELSE CHOOSE i \in idx : \A j \in idx : i <= j

\* the loop of _handle_fetch_command over the targets
RECURSIVE FetchAll(_, _, _, _)
FetchAll(targets, items, m, is_uid_fetch) ==
    IF targets = << >>
    THEN [mail |-> m, lines |-> << >>]
    ELSE LET g == Head(targets)
             m1 == ReadMessage(m, g[3], items)
             rest == FetchAll(Tail(targets), items, m1, is_uid_fetch)
         IN  [mail |-> rest.mail,
              lines |-> HandleFetchMessage(g[1], g[2], g[3], m1[g[3]], items,
                                           is_uid_fetch) \o rest.lines]

HandleFetchCommand(targets, item_names, m, is_uid_fetch) ==
    FetchAll(targets, Macros(item_names), m, is_uid_fetch)

\* ---------------------------------------------------------------- session
\* Python's None in the fields of the context, which otherwise hold strings
Unset == "None"

NewContext ==
    [authenticated_user |-> Unset, selected_folder |-> Unset,
     read_only |-> TRUE, tls_active |-> FALSE]

\* a line written to the connection: n is the number of the command line it
\* answers (0: the greeting and lines that answer no command), tagged tells a
\* line that starts with the command's tag from one that starts with * or +
Line(n, tagged, text) == [n |-> n, tagged |-> tagged, text |-> text]

\* the server's host name, and the authcids the model lets clients supply
host_name == "mx"
Authcids == {"bob", "bob@mx", "alex", "m@mx"}

\* the strings of the model, with the characters of each
Names == {"", "@", "mx", "bob", "bob@mx", "alex", "ale", "m@mx", "m"}

Spell(name) ==
    CASE name = "" -> << >>
      [] name = "@" -> <<"@">>
      [] name = "mx" -> <<"m", "x">>
      [] name = "bob" -> <<"b", "o", "b">>
      [] name = "bob@mx" -> <<"b", "o", "b", "@", "m", "x">>
      [] name = "alex" -> <<"a", "l", "e", "x">>
      [] name = "ale" -> <<"a", "l", "e">>
      [] name = "m@mx" -> <<"m", "@", "m", "x">>
      [] name = "m" -> <<"m">>

Unspell(chars) == CHOOSE name \in Names : Spell(name) = chars

\* str.rstrip(chars): trailing characters are dropped while they are in chars
RECURSIVE RStrip(_, _)
RStrip(s, chars) ==
    IF s = << >> \/ s[Len(s)] \notin chars
    THEN s
    ELSE RStrip(SubSeq(s, 1, Len(s) - 1), chars)

\* authcid.rstrip('@' + self.host_name)
StoredUser(authcid) ==
    Unspell(RStrip(Spell(authcid), Range(Spell("@") \o Spell(host_name))))

\* truth value of a context field: None and the empty string are false
Truthy(field) == field \notin {Unset, ""}

\* subfolders of the user's mailbox root; the root itself is INBOX
Subfolders == {"Sent", "Drafts"}

\* the arguments of SELECT and EXAMINE the model draws from: the words
\* shlex.split yields, and whether every quotation is closed
SelectArgs ==
    { [words |-> <<"INBOX">>, closed |-> TRUE],
      [words |-> <<"inbox">>, closed |-> TRUE],
      [words |-> <<"Sent">>, closed |-> TRUE],
      [words |-> <<"Work">>, closed |-> TRUE],
      [words |-> <<"INBOX">>, closed |-> FALSE],
      [words |-> << >>, closed |-> TRUE],
      [words |-> <<"INBOX", "Sent">>, closed |-> TRUE] }

Upper(name) == IF name = "inbox" THEN "INBOX" ELSE name

\* MaildirWrapper(base, folder_name, create=False): Maildir.get_folder raises
\* mailbox.NoSuchMailboxError, which is not a FileNotFoundError
WrapperRaises(folder_name) == folder_name # "" /\ folder_name \notin Subfolders

\* ------------------------------------------------------- SMTP handle_DATA
\* the mailboxes of the storage root, and the two folders SMTP writes to
Users == {"alice", "bob", "carol"}
SmtpFolders == {"INBOX", "Sent"}

\* an address is its local part and its domain; handle_RCPT accepts only
\* addresses of the host, MAIL FROM any address
Senders == {<<u, d>> : u \in Users, d \in {host_name, "elsewhere"}}
Recipients == {<<u, host_name>> : u \in Users}
RcptLists == {<<r>> : r \in Recipients}
                 \cup {<<r1, r2>> : r1 \in Recipients, r2 \in Recipients}

\* parseaddr(address)[1].split("@")[0]
NameOf(address) == address[1]

NoBoxes == [b \in Users \X SmtpFolders |-> 0]
NoEnvelope == [mail_from |-> << >>, rcpt_tos |-> << >>]

\* wrapper.save_message(maildir_msg) on the folder of the user's mailbox
SaveMessage(bx, user, folder) == [bx EXCEPT ![<<user, folder>>] = @ + 1]

\* the loop of handle_DATA over envelope.rcpt_tos: a recipient who is the
\* sender is skipped; the mailbox opened for the others is the one at
\* os.path.join(self.mail_dir, sender_name)
RECURSIVE DeliverAll(_, _, _)
DeliverAll(bx, sender_name, rcpt_tos) ==
    IF rcpt_tos = << >>
    THEN bx
    ELSE LET recipient_name == NameOf(Head(rcpt_tos))
         IN  IF recipient_name = sender_name
             THEN DeliverAll(bx, sender_name, Tail(rcpt_tos))
             ELSE DeliverAll(SaveMessage(bx, sender_name, "INBOX"),
                             sender_name, Tail(rcpt_tos))

\* handle_DATA: a copy in the sender's Sent folder, then the loop
HandleData(bx, e) ==
    LET sender_name == NameOf(e.mail_from)
    IN  DeliverAll(SaveMessage(bx, sender_name, "Sent"), sender_name, e.rcpt_tos)

\* what a handler gives back: the lines it wrote or returned, the context it
\* leaves, and whether it raised instead of returning
Result(lines, ctx) == [lines |-> lines, ctx |-> ctx, raised |-> FALSE]
Raised(ctx) == [lines |-> << >>, ctx |-> ctx, raised |-> TRUE]

HandleCapability(n, ctx) ==
    Result(<<Line(n, FALSE, "CAPABILITY"), Line(n, TRUE, "OK")>>, ctx)

HandleNoop(n, ctx) == Result(<<Line(n, TRUE, "OK")>>, ctx)

HandleLogoutNoBye(n, ctx) == Result(<<Line(n, TRUE, "OK")>>, ctx)

HandleLogout(n, ctx) ==
    Result(<<Line(n, FALSE, "BYE"), Line(n, TRUE, "OK")>>, ctx)

SelectLines(n, unseen) ==
    <<Line(n, FALSE, "EXISTS"), Line(n, FALSE, "RECENT")>>
    \o (IF unseen THEN <<Line(n, FALSE, "UNSEEN")>> ELSE << >>)
    \o <<Line(n, FALSE, "FLAGS"), Line(n, FALSE, "PERMANENTFLAGS"),
         Line(n, FALSE, "UIDVALIDITY"), Line(n, FALSE, "UIDNEXT"),
         Line(n, TRUE, "OK [READ-WRITE]")>>

\* unseen: get_first_unseen_seq found a message; failed: one of the five
\* queries raised
HandleSelect(n, args, ctx, unseen, failed) ==
    IF ~Truthy(ctx.authenticated_user)
    THEN Result(<<Line(n, TRUE, "NO")>>, ctx)
    ELSE IF ~args.closed
    THEN Raised(ctx)
    ELSE IF Len(args.words) # 1
    THEN Result(<<Line(n, TRUE, "BAD")>>, ctx)
    ELSE IF WrapperRaises(IF Upper(args.words[1]) = "INBOX" THEN "" ELSE args.words[1])
    THEN Raised(ctx)
    ELSE IF failed
    THEN Result(<<Line(n, TRUE, "NO")>>, ctx)
    ELSE Result(SelectLines(n, unseen),
                [ctx EXCEPT !.selected_folder = args.words[1], !.read_only = FALSE])

\* the tags the model lets clients use; one of them contains the word SELECT
CommandTags == {"a1", "SELECT1"}

\* response.replace("SELECT", "EXAMINE").replace("[READ-WRITE]", "[READ-ONLY]")
\* on one line of the response: the tag at its start is text like the rest
ReplaceSelect(tag, l) ==
    [l EXCEPT !.tagged = l.tagged /\ tag # "SELECT1",
              !.text = IF l.text = "OK [READ-WRITE]" THEN "OK [READ-ONLY]" ELSE l.text]

HandleExamine(n, tag, args, ctx, unseen, failed) ==
    LET r == HandleSelect(n, args, ctx, unseen, failed)
    IN  IF r.raised THEN r
        ELSE Result([i \in 1..Len(r.lines) |-> ReplaceSelect(tag, r.lines[i])],
                    [r.ctx EXCEPT !.read_only = TRUE])

\* a variant that answers OK and leaves the folder selected
HandleCloseKeepsFolder(n, ctx) ==
    IF ~Truthy(ctx.authenticated_user) \/ ~Truthy(ctx.selected_folder)
    THEN Result(<<Line(n, TRUE, "NO")>>, ctx)
    ELSE Result(<<Line(n, TRUE, "OK")>>, ctx)

HandleClose(n, ctx) ==
    IF ~Truthy(ctx.authenticated_user) \/ ~Truthy(ctx.selected_folder)
    THEN Result(<<Line(n, TRUE, "NO")>>, ctx)
    ELSE Result(<<Line(n, TRUE, "OK")>>, [ctx EXCEPT !.selected_folder = Unset])

\* FETCH and UID FETCH: wellformed tells 'set items' from a lone word; status
\* and count are what handle_seq_fetch / handle_uid_fetch return
HandleFetch(n, wellformed, ctx, status, count) ==
    IF ~Truthy(ctx.authenticated_user) \/ ~Truthy(ctx.selected_folder)
    THEN Result(<<Line(n, TRUE, "NO")>>, ctx)
    ELSE IF ~wellformed
    THEN Result(<<Line(n, TRUE, "BAD")>>, ctx)
    ELSE IF WrapperRaises(IF ctx.selected_folder = "INBOX" THEN "" ELSE ctx.selected_folder)
    THEN Raised(ctx)
    ELSE IF status = "BAD"
    THEN Result(<<Line(n, TRUE, "BAD")>>, ctx)
    ELSE Result([i \in 1..count |-> Line(n, FALSE, "FETCH")] \o <<Line(n, TRUE, "OK")>>, ctx)

\* UID: only the subcommand FETCH is known
HandleUid(n, sub, wellformed, ctx, status, count) ==
    IF ~Truthy(ctx.authenticated_user) \/ ~Truthy(ctx.selected_folder)
    THEN Result(<<Line(n, TRUE, "NO")>>, ctx)
    ELSE IF sub = ""
    THEN Result(<<Line(n, TRUE, "BAD")>>, ctx)
    ELSE IF sub = "FETCH"
    THEN HandleFetch(n, wellformed, ctx, status, count)
    ELSE Result(<<Line(n, TRUE, "BAD")>>, ctx)

\* the arguments of LIST and LSUB the model draws from: reference name and
\* mailbox name as shlex.split yields them
ListArgs ==
    { [words |-> <<"", "*">>, closed |-> TRUE],
      [words |-> <<"", "%">>, closed |-> TRUE],
      [words |-> <<"", "S%">>, closed |-> TRUE],
      [words |-> <<"", "I*">>, closed |-> TRUE],
      [words |-> <<"", "">>, closed |-> TRUE],
      [words |-> <<"", "Sent">>, closed |-> TRUE],
      [words |-> <<"", "Work">>, closed |-> TRUE],
      [words |-> <<"..", "*">>, closed |-> TRUE],
      [words |-> <<"", "../*">>, closed |-> TRUE],
      [words |-> <<"*">>, closed |-> TRUE],
      [words |-> <<"", "*">>, closed |-> FALSE] }

\* the arguments drawn where the folder names of the answer are not looked at
BriefListArgs ==
    {args \in ListArgs :
        args.words \in {<<"", "*">>, <<"", "">>, <<"", "Sent">>, <<"", "Work">>,
                        <<"..", "*">>, <<"*">>}}

\* the characters of the reference names, mailbox names and folder names
Chars(name) ==
    CASE name = "" -> << >>
      [] name = "*" -> <<"*">>
      [] name = "%" -> <<"%">>
      [] name = "S%" -> <<"S", "%">>
      [] name = "I*" -> <<"I", "*">>
      [] name = ".." -> <<".", ".">>
      [] name = "../*" -> <<".", ".", "/", "*">>
      [] name = "INBOX" -> <<"I", "N", "B", "O", "X">>
      [] name = "Sent" -> <<"S", "e", "n", "t">>
      [] name = "Drafts" -> <<"D", "r", "a", "f", "t", "s">>
      [] name = "Work" -> <<"W", "o", "r", "k">>

ListNames == {"", "*", "%", "S%", "I*", "..", "../*", "INBOX", "Sent", "Drafts", "Work"}

Unchars(chars) == CHOOSE name \in ListNames : Chars(name) = chars

\* ".." in name
HasDotDot(chars) ==
    \E i \in 1..(Len(chars) - 1) : chars[i] = "." /\ chars[i + 1] = "."

\* name.startswith(prefix)
StartsWith(chars, prefix) ==
    Len(prefix) <= Len(chars) /\ SubSeq(chars, 1, Len(prefix)) = prefix

\* name.lstrip("/")
RECURSIVE LStripSlash(_)
LStripSlash(chars) ==
    IF chars # << >> /\ Head(chars) = "/" THEN LStripSlash(Tail(chars)) ELSE chars

\* a LIST line with the name of the folder it is about
ListLine(n, name) == [n |-> n, tagged |-> FALSE, text |-> "LIST", name |-> name]

\* a variant that lists every subfolder
ListedSubfoldersAll(relative_folder_names, prefix) == relative_folder_names

\* the subfolders whose name starts with the prefix, in the order
\* list_folders_safe returned them
ListedSubfolders(relative_folder_names, prefix) ==
    SelectSeq(relative_folder_names, LAMBDA f : StartsWith(Chars(f), prefix))

\* _handle_list_internal: one LIST line per mailbox found, then the tagged OK;
\* relative_folder_names is what list_folders_safe returns
ListInternal(n, reference_name, mailbox_name, relative_folder_names, ctx) ==
    LET r == Chars(reference_name)
        m == Chars(mailbox_name)
        search_pattern == LStripSlash(IF StartsWith(m, <<"/">>) THEN Tail(m) ELSE r \o m)
        wild == search_pattern # << >>
                /\ search_pattern[Len(search_pattern)] \in {"*", "%"}
        prefix == SubSeq(search_pattern, 1, Len(search_pattern) - 1)
        inbox == IF StartsWith(Chars("INBOX"), prefix)
                 THEN <<ListLine(n, "INBOX")>>
                 ELSE << >>
        subs == ListedSubfolders(relative_folder_names, prefix)
    IN  IF HasDotDot(r) \/ HasDotDot(m)
        THEN Result(<<Line(n, TRUE, "NO")>>, ctx)
        ELSE IF mailbox_name = ""
        THEN Result(<<ListLine(n, ""), Line(n, TRUE, "OK")>>, ctx)
        ELSE IF wild
        THEN Result(inbox \o [i \in 1..Len(subs) |-> ListLine(n, subs[i])]
                          \o <<Line(n, TRUE, "OK")>>, ctx)
        ELSE IF WrapperRaises(IF search_pattern = Chars("INBOX")
                              THEN "" ELSE Unchars(search_pattern))
        THEN Raised(ctx)
        ELSE Result(<<ListLine(n, Unchars(search_pattern)), Line(n, TRUE, "OK")>>, ctx)

HandleList(n, args, relative_folder_names, ctx) ==
    IF ~Truthy(ctx.authenticated_user)
    THEN Result(<<Line(n, TRUE, "NO")>>, ctx)
    ELSE IF ~args.closed
    THEN Raised(ctx)
    ELSE IF Len(args.words) # 2
    THEN Result(<<Line(n, TRUE, "BAD")>>, ctx)
    ELSE ListInternal(n, args.words[1], args.words[2], relative_folder_names, ctx)

\* response.replace("LIST", "LSUB")
ReplaceList(l) == IF l.text = "LIST" THEN [l EXCEPT !.text = "LSUB"] ELSE l

HandleLsub(n, args, relative_folder_names, ctx) ==
    IF ~Truthy(ctx.authenticated_user)
    THEN Result(<<Line(n, TRUE, "NO")>>, ctx)
    ELSE LET r == HandleList(n, args, relative_folder_names, ctx)
         IN  IF r.raised THEN r
             ELSE Result([i \in 1..Len(r.lines) |-> ReplaceList(r.lines[i])], r.ctx)

\* wellformed tells 'mailbox (items)' from a lone word
HandleStatus(n, wellformed, mailbox_name, ctx) ==
    IF ~Truthy(ctx.authenticated_user)
    THEN Result(<<Line(n, TRUE, "NO")>>, ctx)
    ELSE IF ~wellformed
    THEN Result(<<Line(n, TRUE, "BAD")>>, ctx)
    ELSE IF WrapperRaises(IF Upper(mailbox_name) = "INBOX" THEN "" ELSE mailbox_name)
    THEN Raised(ctx)
    ELSE Result(<<Line(n, FALSE, "STATUS"), Line(n, TRUE, "OK")>>, ctx)

\* command words without a _handle_ method
Unrecognized == {"XYZZY", "CREATE", "STORE", "SEARCH", "EXPUNGE", "IDLE"}

\* "LIST_INTERNAL" and "COMMAND" name methods that take other parameters
\* than (tag, args, context)
OtherWords == Unrecognized \cup {"LIST_INTERNAL", "COMMAND"}

HandleOther(n, word, ctx) ==
    IF word \in Unrecognized
    THEN Result(<<Line(n, TRUE, "BAD")>>, ctx)
    ELSE Raised(ctx)

\* no line read yet
NoCommand ==
    [word |-> "", arg |-> << >>, ctx |-> NewContext, authcid |-> Unset, oracle |-> FALSE,
     raised |-> FALSE]

\* ------------------------------------------------------------------ tasks
Idle ==
    [op |-> "idle", pc |-> "idle", nxt |-> "idle", cont |-> "idle", data |-> None,
     content |-> None, key |-> 0, arg |-> << >>, todo |-> {}, pairs |-> {},
     uids |-> << >>, targets |-> << >>]

StoreOps == {"reconcile", "save"}
FetchOps == {"fetch", "uidfetch"}

Pending == Cardinality({t \in Tasks : tk[t].op = "save" /\ tk[t].key = 0})

Pairs(fd) == {<<k, fd.key_to_uid[k]>> : k \in DOMAIN fd.key_to_uid}

NoRebuild == <<0, -1>>

\* history of the UIDNEXT values one session was given: the last one, and
\* whether a later one was ever smaller than an earlier one
NoObs == [last |-> 0, dropped |-> FALSE]
Observe(o, uidnext) == [last |-> uidnext, dropped |-> o.dropped \/ uidnext < o.last]

\* asyncio.gather in _handle_select: of its five coroutines get_uidvalidity
\* (1) and get_uidnext (2) use the registry
Coroutines == {1, 2}
Rest == [pc |-> "rest", nxt |-> "rest", content |-> None, ret |-> 0, ref |-> 0]
NoSelect == [running |-> FALSE, expect |-> 0, uidnext |-> 0, uidvalidity |-> 0,
             changed |-> FALSE, done |-> FALSE]

NoResp == [status |-> "none", targets |-> << >>, lines |-> << >>, listed |-> {}]

\* history of reports: the first UID reported for each key
SeenAfter(sn, ps) ==
    [k \in (DOMAIN sn) \cup {p[1] : p \in ps} |->
        IF k \in DOMAIN sn THEN sn[k]
        ELSE CHOOSE u \in {p[2] : p \in {q \in ps : q[1] = k}} : TRUE]
MovedIn(sn, ps) ==
    \E p \in ps : p[1] \in DOMAIN sn /\ sn[p[1]] # p[2]
ClashIn(sn, ps) ==
    \E p \in ps : \E k \in DOMAIN sn : k # p[1] /\ sn[k] = p[2]

Start ==
    /\ keys = {}
    /\ made = 0
    /\ file = MissingFile
    /\ clock = 0
    /\ salt \in 0..(HashMod - 1)
    /\ tk = [t \in Tasks |-> Idle]
    /\ resp = NoResp
    /\ seen = EmptyMap
    /\ moved = FALSE
    /\ clash = FALSE
    /\ issuedMax = -1
    /\ rebuilt = NoRebuild
    /\ view = NoView
    /\ before = NoView
    /\ context = NewContext
    /\ conn = "greeting"
    /\ out = << >>
    /\ cmds = 0
    /\ obs = NoObs
    /\ heap = [i \in Coroutines |-> None]
    /\ selfp = 0
    /\ co = [i \in Coroutines |-> Rest]
    /\ sel = NoSelect
    /\ last = NoCommand
    /\ mail = NewMail
    /\ reply = NoReply
    /\ first_unseen = NotAsked
    /\ boxes = NoBoxes
    /\ envelope = NoEnvelope

Init == Start /\ track = {"reports"}

InitSeq == Start /\ track = {"validity", "view"}

InitFetch == Start /\ track = {"resp"}

InitSession == Start /\ track = {}

InitSelect == Start /\ track = {"select"}

InitObserved == Start /\ track = {"uidnext"}

\* UIDVALIDITY plays no part in the items of a response
InitList == Start /\ track = {"list"}

InitFirstFetch == Start /\ track = {"resp"} /\ salt = 0

InitItems == Start /\ track = {"items"} /\ salt = 0

InitUnseen == Start /\ track = {"unseen"} /\ salt = 0

InitData == Start /\ track = {"data"} /\ salt = 0

\* the operation returns: what it reported enters the history
Finish(t, data, reported) ==
    /\ tk' = [tk EXCEPT ![t] = Idle]
    /\ seen' = IF "reports" \in track THEN SeenAfter(seen, reported) ELSE seen
    /\ moved' = IF "reports" \in track THEN moved \/ MovedIn(seen, reported) ELSE moved
    /\ clash' = IF "reports" \in track THEN clash \/ ClashIn(seen, reported) ELSE clash
    /\ view' = IF "view" \in track /\ data # None THEN data ELSE view
    /\ before' = before
    /\ obs' = IF "uidnext" \in track /\ t = 1 /\ tk[t].op = "reconcile"
              THEN Observe(obs, FolderOf(data).uidnext)
              ELSE obs

\* a FETCH returns its response: the targets it resolved, and the lines of
\* those whose message it could load
Respond(t, data, status, targets, listed) ==
    /\ Finish(t, data, {<<g[3], g[2]>> : g \in Range(FetchLines(targets, keys))})
    /\ resp' = IF "resp" \in track
               THEN [status |-> status, targets |-> targets,
                     lines |-> FetchLines(targets, keys), listed |-> listed]
               ELSE resp

\* _get_folder_uid_data on a fresh wrapper: read the file; make the folder's
\* entry when the file has none
Load(t, o, cont, arg, todo) ==
    LET loaded == LoadUidData(file)
        fresh == FolderKey \notin DOMAIN loaded.folders
        data == IF fresh
                THEN WithFolder(loaded, NewFolderData(clock, salt))
                ELSE loaded
    IN  /\ tk' = [tk EXCEPT ![t] =
                    [Idle EXCEPT !.op = o,
                                 !.pc = IF fresh THEN "open" ELSE "list",
                                 !.nxt = "list",
                                 !.cont = cont,
                                 !.data = data,
                                 !.content = IF fresh THEN Dumps(data) ELSE None,
                                 !.arg = arg,
                                 !.todo = todo]]
        /\ rebuilt' = IF fresh /\ "validity" \in track
                      THEN <<FolderOf(data).uidvalidity, issuedMax>>
                      ELSE rebuilt

\* get_uidnext, get_uid_from_key, get_key_from_uid (reconcile) and
\* save_message (save) start with _sync_uids
Begin(t, o) ==
    /\ tk[t].op = "idle"
    /\ o = "save" => made + Pending < MaxKeys
    /\ Load(t, o, IF o = "save" THEN "add" ELSE "ret", << >>, {})
    /\ UNCHANGED <<store, env, resp, reports, issuedMax, views, track, session, gather, fetched, delivery>>

\* handle_seq_fetch, handle_uid_fetch: list the keys, then look each one up
BeginFetch(t, o, arg) ==
    /\ tk[t].op = "idle"
    /\ IF keys = {}
       THEN /\ Respond(t, None, "OK", << >>, {})
            /\ UNCHANGED rebuilt
       ELSE /\ Load(t, o, "pair", arg, keys)
            /\ UNCHANGED <<resp, reports, views>>
    /\ UNCHANGED <<store, env, issuedMax, track, session, gather, fetched, delivery>>

\* _save_uid_data, first half: open(uid_file, 'w') empties the file
SaveOpen(t) ==
    /\ tk[t].pc = "open"
    /\ file' = TruncatedFile
    /\ tk' = [tk EXCEPT ![t].pc = "write"]
    /\ view' = IF "view" \in track THEN NoView ELSE view
    /\ before' = IF "view" \in track THEN NoView ELSE before
    /\ UNCHANGED <<keys, made, env, resp, reports, validity, track, session, gather, fetched, delivery>>

\* _save_uid_data, second half: the content is written and the file closed
SaveWrite(t) ==
    /\ tk[t].pc = "write"
    /\ file' = JsonFile(tk[t].content)
    /\ issuedMax' = IF "validity" \in track
                       /\ tk[t].content.folders[FolderKey].uidvalidity > issuedMax
                    THEN tk[t].content.folders[FolderKey].uidvalidity
                    ELSE issuedMax
    /\ IF tk[t].nxt = "ret"
       THEN Finish(t, tk[t].data,
                   IF tk[t].op = "save"
                   THEN {<<tk[t].key, FolderOf(tk[t].data).key_to_uid[tk[t].key]>>}
                   ELSE Pairs(FolderOf(tk[t].data)))
       ELSE /\ tk' = [tk EXCEPT ![t].pc = tk[t].nxt, ![t].content = None]
            /\ UNCHANGED <<reports, views>>
    /\ UNCHANGED <<keys, made, env, resp, rebuilt, track, session, gather, fetched, delivery>>

\* _sync_uids after the listing of the keys returns
List(t) ==
    /\ tk[t].pc = "list"
    /\ \E order \in Orders(NewKeys(FolderOf(tk[t].data), keys)) :
        LET fd == FolderOf(tk[t].data)
            after == SyncUids(fd, keys, order)
            data == WithFolder(tk[t].data, after)
        IN  IF SyncChanged(fd, keys)
            THEN /\ tk' = [tk EXCEPT ![t].data = data, ![t].pc = "open",
                                     ![t].nxt = tk[t].cont, ![t].content = Dumps(data)]
                 /\ UNCHANGED <<reports, views>>
            ELSE IF tk[t].cont = "ret"
            THEN Finish(t, data, Pairs(after))
            ELSE /\ tk' = [tk EXCEPT ![t].pc = tk[t].cont]
                 /\ UNCHANGED <<reports, views>>
    /\ UNCHANGED <<store, env, resp, validity, track, session, gather, fetched, delivery>>

\* save_message after maildir.add returns the new key
Add(t) ==
    /\ tk[t].pc = "add"
    /\ LET key == made + 1
           data == WithFolder(tk[t].data, SaveAssign(FolderOf(tk[t].data), key))
       IN  /\ made' = key
           /\ keys' = keys \cup {key}
           /\ tk' = [tk EXCEPT ![t].data = data, ![t].key = key, ![t].pc = "open",
                               ![t].nxt = "ret", ![t].content = Dumps(data)]
    /\ UNCHANGED <<file, env, resp, reports, validity, views, track, session, gather, fetched, delivery>>

\* _get_message_uid_key_pairs: get_uid_from_key has reconciled, one listed key
\* is looked up; after the last one the pairs are sorted
Pair(t) ==
    /\ tk[t].pc = "pair"
    /\ \E k \in tk[t].todo :
        LET fd == FolderOf(tk[t].data)
            pairs == IF k \in DOMAIN fd.key_to_uid
                     THEN tk[t].pairs \cup {<<fd.key_to_uid[k], k>>}
                     ELSE tk[t].pairs
            todo == tk[t].todo \ {k}
            message_pairs == SortedPairs(pairs)
            seq_list == ParseSequenceSet(tk[t].arg, Len(message_pairs))
        IN  IF todo # {}
            THEN /\ tk' = [tk EXCEPT ![t].pairs = pairs, ![t].todo = todo,
                                     ![t].pc = "list", ![t].cont = "pair"]
                 /\ UNCHANGED <<resp, reports, views>>
            ELSE IF pairs = {}
            THEN Respond(t, tk[t].data, "OK", << >>, pairs)
            ELSE IF tk[t].op = "uidfetch"
            THEN /\ tk' = [tk EXCEPT ![t].pairs = pairs, ![t].todo = todo,
                                     ![t].pc = "list", ![t].cont = "parse"]
                 /\ UNCHANGED <<resp, reports, views>>
            ELSE IF seq_list = INVALID
            THEN Respond(t, tk[t].data, "BAD", << >>, pairs)
            ELSE Respond(t, tk[t].data, "OK",
                         TargetsFromSeqList(seq_list, message_pairs), pairs)
    /\ UNCHANGED <<store, env, validity, track, session, gather, fetched, delivery>>

\* _parse_uid_set after get_uidnext has reconciled
Parse(t) ==
    /\ tk[t].pc = "parse"
    /\ LET max_uid == FolderOf(tk[t].data).uidnext - 1
           uid_list == ParseUidSet(tk[t].arg, max_uid, keys # {})
       IN  IF uid_list = INVALID
           THEN Respond(t, tk[t].data, "BAD", << >>, tk[t].pairs)
           ELSE IF uid_list = << >>
           THEN Respond(t, tk[t].data, "OK", << >>, tk[t].pairs)
           ELSE /\ tk' = [tk EXCEPT ![t].uids = uid_list, ![t].pc = "list",
                                    ![t].cont = "target"]
                /\ UNCHANGED <<resp, reports, views>>
    /\ UNCHANGED <<store, env, validity, track, session, gather, fetched, delivery>>

\* _get_targets_from_uid_list: get_key_from_uid has reconciled, one UID is
\* resolved; after the last one the response is assembled
Target(t) ==
    /\ tk[t].pc = "target"
    /\ LET fd == FolderOf(tk[t].data)
           uid == Head(tk[t].uids)
           targets == IF uid \in DOMAIN fd.uid_to_key
                      THEN Append(tk[t].targets,
                                  <<UidToSeq(SortedPairs(tk[t].pairs), uid), uid,
                                    fd.uid_to_key[uid]>>)
                      ELSE tk[t].targets
           rest == Tail(tk[t].uids)
       IN  IF rest # << >>
           THEN /\ tk' = [tk EXCEPT ![t].targets = targets, ![t].uids = rest,
                                    ![t].pc = "list", ![t].cont = "target"]
                /\ UNCHANGED <<resp, reports, views>>
           ELSE Respond(t, tk[t].data, "OK", targets, tk[t].pairs)
    /\ UNCHANGED <<store, env, validity, track, session, gather, fetched, delivery>>

\* the task is cancelled at one of its awaits; its wrapper is dropped
Cancel(t) ==
    /\ tk[t].op # "idle"
    /\ tk' = [tk EXCEPT ![t] = Idle]
    /\ UNCHANGED <<store, env, resp, reports, validity, views, track, session, gather, fetched, delivery>>

\* a message file appears in the folder (a delivery by another writer)
FileAppears ==
    /\ made + Pending < MaxKeys
    /\ made' = made + 1
    /\ keys' = keys \cup {made + 1}
    /\ UNCHANGED <<file, env, tk, resp, reports, validity, views, track, session, gather, fetched, delivery>>

\* a message file is removed from the folder
FileDisappears ==
    /\ \E k \in keys : keys' = keys \ {k}
    /\ UNCHANGED <<made, file, env, tk, resp, reports, validity, views, track, session, gather, fetched, delivery>>

Tick ==
    /\ clock < MaxClock
    /\ clock' = clock + 1
    /\ UNCHANGED <<store, salt, tk, resp, reports, validity, views, track, session, gather, fetched, delivery>>

\* the process stops and starts again: every wrapper is gone, str hashes are
\* reseeded
Restart ==
    /\ tk' = [t \in Tasks |-> Idle]
    /\ salt' \in 0..(HashMod - 1)
    /\ before' = view
    /\ UNCHANGED <<store, clock, resp, reports, validity, view, track, session, gather, fetched, delivery>>

Next ==
    \/ \E t \in Tasks : \E o \in StoreOps : Begin(t, o)
    \/ \E t \in Tasks : SaveOpen(t)
    \/ \E t \in Tasks : SaveWrite(t)
    \/ \E t \in Tasks : List(t)
    \/ \E t \in Tasks : Add(t)
    \/ \E t \in Tasks : Cancel(t)
    \/ FileAppears
    \/ FileDisappears
    \/ Restart

Spec == Init /\ [][Next]_vars

\* the same overlapping tasks; the first task's commands are one session's
\* STATUS (UIDNEXT) commands, whose returned values are recorded
SpecObserved == InitObserved /\ [][Next]_vars

\* one operation at a time: which task runs it makes no difference, the
\* first one does
Quiet == \A t \in Tasks : tk[t].op = "idle"

BeginAlone(t, o) == Quiet /\ Begin(t, o)

BeginFetchAlone(t, o, arg) == Quiet /\ BeginFetch(t, o, arg)

NextSeq ==
    \/ \E o \in StoreOps : BeginAlone(1, o)
    \/ \E t \in Tasks : SaveOpen(t)
    \/ \E t \in Tasks : SaveWrite(t)
    \/ \E t \in Tasks : List(t)
    \/ \E t \in Tasks : Add(t)
    \/ \E t \in Tasks : Cancel(t)
    \/ FileAppears
    \/ FileDisappears
    \/ Tick
    \/ Restart

SpecSeq == InitSeq /\ [][NextSeq]_vars

\* ------------------------------------------------- FETCH and its data items
\* handle_seq_fetch and handle_uid_fetch run from their first line to their
\* last with no other task in between: the folder's entry is made when the
\* registry has none, the reconcile assigns UIDs to the new files in some
\* order and saves, an empty folder is answered at once, a set that does not
\* parse is answered BAD, and the targets are fetched one by one
FetchStep(is_uid, arg, item_names, prev) ==
      LET d0 == LoadUidData(file)
          fresh == FolderKey \notin DOMAIN d0.folders
          fd0 == IF fresh THEN NewFolderData(clock, salt) ELSE FolderOf(d0)
      IN  \E order \in Orders(NewKeys(fd0, keys)) :
            LET fd == SyncUids(fd0, keys, order)
                message_pairs == SortedPairs({<<fd.key_to_uid[k], k>> : k \in keys})
                list == IF is_uid
                        THEN ParseUidSet(arg, fd.uidnext - 1, TRUE)
                        ELSE ParseSequenceSet(arg, Len(message_pairs))
                targets == IF is_uid
                           THEN TargetsFromUidList(list, fd, message_pairs)
                           ELSE TargetsFromSeqList(list, message_pairs)
                r == HandleFetchCommand(targets, item_names, mail, is_uid)
            IN  /\ file' = IF fresh \/ SyncChanged(fd0, keys)
                           THEN JsonFile(Dumps(WithFolder(d0, fd)))
                           ELSE file
                /\ IF message_pairs = << >>
                   THEN /\ reply' = [is_uid |-> is_uid, arg |-> arg, items |-> item_names,
                                     status |-> "OK", lines |-> << >>, prev |-> prev]
                        /\ mail' = mail
                   ELSE IF list = INVALID
                   THEN /\ reply' = [is_uid |-> is_uid, arg |-> arg, items |-> item_names,
                                     status |-> "BAD", lines |-> << >>, prev |-> prev]
                        /\ mail' = mail
                   ELSE /\ reply' = [is_uid |-> is_uid, arg |-> arg, items |-> item_names,
                                     status |-> "OK", lines |-> r.lines, prev |-> prev]
                        /\ mail' = r.mail
                /\ UNCHANGED <<keys, made, env, tk, resp, reports, validity, views,
                               track, session, gather, first_unseen, delivery>>

\* a FETCH or UID FETCH with some set and some items
FetchCommand ==
    \E is_uid \in BOOLEAN, arg \in FetchArgs, item_names \in ItemLists :
        FetchStep(is_uid, arg, item_names, << >>)

\* the UID set that lists the UIDs of the lines, in their order
UidsOf(lines) == [i \in 1..Len(lines) |-> <<Num(lines[i].uid)>>]

\* the client that got the lines of FETCH 1:* (UID) sends, as its next
\* command, UID FETCH <the returned UIDs> (FLAGS); prev keeps the lines of
\* the first response
UidFetchReturned ==
    /\ ~reply.is_uid
    /\ reply.arg = <<<<Num(1), Star>>>>
    /\ reply.items = <<"UID">>
    /\ reply.lines # << >>
    /\ FetchStep(TRUE, UidsOf(reply.lines), <<"FLAGS">>, reply.lines)

\* another client of the mailbox marks a message as seen
SeenElsewhere ==
    /\ \E k \in keys : mail' = MarkSeen(mail, k)
    /\ mail' # mail
    /\ UNCHANGED <<store, env, tk, resp, reports, validity, views, track, session, gather,
                   reply, first_unseen, delivery>>

\* the response has been written and the next command line is awaited
NextCommand ==
    /\ reply # NoReply
    /\ reply' = NoReply
    /\ UNCHANGED <<store, env, tk, resp, reports, validity, views, track, session, gather,
                   mail, first_unseen, delivery>>

\* no response is on its way to the client
Between == reply = NoReply

\* the folder changes between the commands; a command runs alone
NextItems ==
    \/ Between /\ FileAppears
    \/ Between /\ FileDisappears
    \/ Between /\ SeenElsewhere
    \/ Between /\ FetchCommand
    \/ UidFetchReturned
    \/ NextCommand

SpecItems == InitItems /\ [][NextItems]_vars

\* ------------------------------------------------- SELECT's first unseen
\* the queries of _handle_select that decide the UNSEEN line, run alone:
\* get_uidnext reconciles the registry as a FETCH does, get_first_unseen_seq
\* walks maildir.keys(), whose order is that of the directory listing
SelectQueries ==
    LET d0 == LoadUidData(file)
        fresh == FolderKey \notin DOMAIN d0.folders
        fd0 == IF fresh THEN NewFolderData(clock, salt) ELSE FolderOf(d0)
    IN  \E order \in Orders(NewKeys(fd0, keys)) : \E keys_list \in Orders(keys) :
            LET fd == SyncUids(fd0, keys, order)
            IN  /\ file' = IF fresh \/ SyncChanged(fd0, keys)
                           THEN JsonFile(Dumps(WithFolder(d0, fd)))
                           ELSE file
                /\ first_unseen' = [asked |-> TRUE,
                                    seq |-> GetFirstUnseenSeq(keys_list, mail)]
                /\ UNCHANGED <<keys, made, env, tk, resp, reports, validity, views,
                               track, session, gather, mail, reply, delivery>>

\* the response of the SELECT has been written
SelectAnswered ==
    /\ first_unseen # NotAsked
    /\ first_unseen' = NotAsked
    /\ UNCHANGED <<store, env, tk, resp, reports, validity, views, track, session, gather,
                   mail, reply, delivery>>

Unasked == first_unseen = NotAsked

NextUnseen ==
    \/ Unasked /\ FileAppears
    \/ Unasked /\ FileDisappears
    \/ Unasked /\ SeenElsewhere
    \/ Unasked /\ SelectQueries
    \/ SelectAnswered

SpecUnseen == InitUnseen /\ [][NextUnseen]_vars

\* ---------------------------------------------------------- SMTP writer
\* messages accepted so far: each has one copy in a Sent folder
Accepted ==
    LET RECURSIVE Sum(_)
        Sum(S) == IF S = {} THEN 0
                  ELSE LET u == CHOOSE x \in S : TRUE
                       IN  boxes[<<u, "Sent">>] + Sum(S \ {u})
    IN  Sum(Users)

\* an authenticated session has sent MAIL FROM, one or two accepted RCPT TO
\* and the message; handle_DATA runs to its '250 Message accepted'
Data ==
    /\ Accepted < MaxData
    /\ \E mail_from \in Senders : \E rcpt_tos \in RcptLists :
          /\ envelope' = [mail_from |-> mail_from, rcpt_tos |-> rcpt_tos]
          /\ boxes' = HandleData(boxes, envelope')
    /\ UNCHANGED <<store, env, tk, resp, reports, validity, views, track, session, gather,
                   fetched>>

NextData == Data

SpecData == InitData /\ [][NextData]_vars

\* ------------------------------------------- SELECT's gather on a wrapper
others == <<tk, resp, reports, validity, views, track, session, fetched, delivery>>

\* _get_folder_uid_data of a coroutine whose dict d has just been loaded: the
\* folder's entry is made and saved when d has none
Loaded(i, d0) ==
    LET fresh == FolderKey \notin DOMAIN d0.folders
        d == IF fresh THEN WithFolder(d0, NewFolderData(clock, salt)) ELSE d0
    IN  [heap |-> [heap EXCEPT ![i] = d],
         co |-> [Rest EXCEPT
                   !.ref = i,
                   !.pc = IF fresh THEN "open" ELSE IF i = 1 THEN "done" ELSE "list",
                   !.nxt = IF i = 1 THEN "done" ELSE "list",
                   !.content = IF fresh THEN Dumps(d) ELSE None,
                   !.ret = IF i = 1 /\ ~fresh THEN FolderOf(d).uidvalidity ELSE 0]]

\* _handle_select builds the wrapper and starts the coroutines: each runs to
\* its first suspension.  A missing file is "loaded" without suspending, so
\* get_uidnext finds the dict get_uidvalidity has just made.
SelectBegin ==
    /\ ~sel.running
    /\ sel' = [NoSelect EXCEPT !.running = TRUE]
    /\ IF file.st = "missing"
       THEN LET l == Loaded(1, LoadUidData(file))
            IN  /\ heap' = l.heap
                /\ selfp' = 1
                /\ co' = [i \in Coroutines |->
                            IF i = 1 THEN l.co
                            ELSE [Rest EXCEPT !.pc = "list", !.ref = 1]]
       ELSE /\ heap' = [i \in Coroutines |-> None]
            /\ selfp' = 0
            /\ co' = [i \in Coroutines |-> [Rest EXCEPT !.pc = "load"]]
    /\ UNCHANGED <<store, env, others>>

\* self._uid_data = await self._load_uid_data(): the file is read, the dict
\* read becomes self._uid_data whichever coroutine loaded before
GatherLoad(i) ==
    /\ co[i].pc = "load"
    /\ LET l == Loaded(i, LoadUidData(file))
       IN  /\ heap' = l.heap
           /\ co' = [co EXCEPT ![i] = l.co]
    /\ selfp' = i
    /\ UNCHANGED <<store, env, sel, others>>

GatherOpen(i) ==
    /\ co[i].pc = "open"
    /\ file' = TruncatedFile
    /\ co' = [co EXCEPT ![i].pc = "write"]
    /\ UNCHANGED <<keys, made, env, heap, selfp, sel, others>>

\* the write ends; get_uidvalidity returns the entry of the dict it loaded,
\* get_uidnext asks _get_folder_uid_data again, which reads self._uid_data
GatherWrite(i) ==
    /\ co[i].pc = "write"
    /\ file' = JsonFile(co[i].content)
    /\ co' = [co EXCEPT ![i].pc = co[i].nxt,
                        ![i].content = None,
                        ![i].ret = IF co[i].nxt # "done" THEN 0
                                   ELSE IF i = 1
                                   THEN FolderOf(heap[co[i].ref]).uidvalidity
                                   ELSE FolderOf(heap[selfp]).uidnext]
    /\ UNCHANGED <<keys, made, env, heap, selfp, sel, others>>

\* _sync_uids of get_uidnext after the listing returns: the dict it holds is
\* reconciled, json.dumps(self._uid_data) is what _save_uid_data will write
GatherList ==
    /\ co[2].pc = "list"
    /\ \E order \in Orders(NewKeys(FolderOf(heap[co[2].ref]), keys)) :
        LET fd == FolderOf(heap[co[2].ref])
            after == SyncUids(fd, keys, order)
            changed == SyncChanged(fd, keys)
            h == [heap EXCEPT ![co[2].ref] = WithFolder(heap[co[2].ref], after)]
        IN  /\ heap' = h
            /\ sel' = [sel EXCEPT !.expect = after.uidnext, !.changed = changed]
            /\ co' = [co EXCEPT
                        ![2].pc = IF changed THEN "open" ELSE "done",
                        ![2].nxt = "done",
                        ![2].content = IF changed THEN Dumps(h[selfp]) ELSE None,
                        ![2].ret = IF changed THEN 0 ELSE FolderOf(h[selfp]).uidnext]
    /\ UNCHANGED <<store, env, selfp, others>>

\* gather returns: the response carries UIDVALIDITY and UIDNEXT
SelectReturn ==
    /\ sel.running
    /\ \A i \in Coroutines : co[i].pc = "done"
    /\ sel' = [sel EXCEPT !.running = FALSE, !.done = TRUE,
                          !.uidvalidity = co[1].ret, !.uidnext = co[2].ret]
    /\ co' = [i \in Coroutines |-> Rest]
    /\ heap' = [i \in Coroutines |-> None]
    /\ selfp' = 0
    /\ UNCHANGED <<store, env, others>>

\* the session task is cancelled at an await of the gather
SelectCancel ==
    /\ sel.running
    /\ sel' = NoSelect
    /\ co' = [i \in Coroutines |-> Rest]
    /\ heap' = [i \in Coroutines |-> None]
    /\ selfp' = 0
    /\ UNCHANGED <<store, env, others>>

NextSelect ==
    \/ SelectBegin
    \/ \E i \in Coroutines : GatherLoad(i)
    \/ \E i \in Coroutines : GatherOpen(i)
    \/ \E i \in Coroutines : GatherWrite(i)
    \/ GatherList
    \/ SelectReturn
    \/ SelectCancel
    \/ FileAppears
    \/ FileDisappears

SpecSelect == InitSelect /\ [][NextSelect]_vars

\* --------------------------------------------------------- handle_client
\* a line with the command word was read while the context was as it is
IssuedWith(word, arg) ==
    last' = [word |-> word, arg |-> arg, ctx |-> context,
             authcid |-> Unset, oracle |-> FALSE, raised |-> FALSE]

Issued(word) == IssuedWith(word, << >>)

SendGreeting ==
    /\ conn = "greeting"
    /\ out' = Append(out, Line(0, FALSE, "OK"))
    /\ conn' = "reading"
    /\ UNCHANGED <<context, cmds, last, storage>>

\* a line of fewer than two words: '* BAD Invalid command format', read on
MalformedLine ==
    /\ conn = "reading"
    /\ cmds < MaxCmds
    /\ cmds' = cmds + 1
    /\ out' = Append(out, Line(0, FALSE, "BAD"))
    /\ Issued("")
    /\ UNCHANGED <<context, conn, storage>>

\* a line that is not ASCII: '* BAD', _read_command returns None, the loop ends
UndecodableLine ==
    /\ conn = "reading"
    /\ cmds < MaxCmds
    /\ cmds' = cmds + 1
    /\ out' = Append(out, Line(0, FALSE, "BAD"))
    /\ conn' = "closed"
    /\ Issued("")
    /\ UNCHANGED <<context, storage>>

\* end of input: readuntil raises IncompleteReadError, the top-level handler
\* writes '* BYE Server error'
EndOfInput ==
    /\ conn \in {"reading", "handshake"}
    /\ out' = Append(out, Line(0, FALSE, "BYE"))
    /\ conn' = "closed"
    /\ UNCHANGED <<context, cmds, last, storage>>

ConnectionReset ==
    /\ conn \in {"reading", "credentials", "handshake"}
    /\ conn' = "closed"
    /\ UNCHANGED <<context, out, cmds, last, storage>>

\* a variant that reads on after the '* BYE Server error'
ReplyAndReadOn(r, logout) ==
    /\ cmds' = cmds + 1
    /\ context' = r.ctx
    /\ out' = IF r.raised
              THEN Append(out, Line(cmds + 1, FALSE, "BYE"))
              ELSE out \o r.lines
    /\ conn' = IF logout THEN "closed" ELSE "reading"
    /\ UNCHANGED storage

\* the loop body after a handler has ended: the response is written; a
\* raised exception becomes '* BYE Server error' and the connection closes
Reply(r, logout) ==
    /\ cmds' = cmds + 1
    /\ context' = r.ctx
    /\ out' = IF r.raised
              THEN Append(out, Line(cmds + 1, FALSE, "BYE"))
              ELSE out \o r.lines
    /\ conn' = IF r.raised \/ logout THEN "closed" ELSE "reading"
    /\ UNCHANGED storage

\* a command line with the word and the arguments was read and its handler
\* has ended as r tells
Handled(word, arg, r, logout) ==
    /\ last' = [word |-> word, arg |-> arg, ctx |-> context,
                authcid |-> Unset, oracle |-> FALSE, raised |-> r.raised]
    /\ Reply(r, logout)

Ready == conn = "reading" /\ cmds < MaxCmds

Capability ==
    Ready /\ Handled("CAPABILITY", << >>, HandleCapability(cmds + 1, context), FALSE)

Noop == Ready /\ Handled("NOOP", << >>, HandleNoop(cmds + 1, context), FALSE)

Logout == Ready /\ Handled("LOGOUT", << >>, HandleLogout(cmds + 1, context), TRUE)

Select ==
    /\ Ready
    /\ \E args \in SelectArgs : \E unseen, failed \in BOOLEAN :
          Handled("SELECT", args.words,
                  HandleSelect(cmds + 1, args, context, unseen, failed), FALSE)

Examine ==
    /\ Ready
    /\ \E tag \in CommandTags : \E args \in SelectArgs : \E unseen, failed \in BOOLEAN :
          Handled("EXAMINE", args.words,
                  HandleExamine(cmds + 1, tag, args, context, unseen, failed), FALSE)

Close == Ready /\ Handled("CLOSE", << >>, HandleClose(cmds + 1, context), FALSE)

\* the arguments of LIST and LSUB are kept where the answer is compared
\* with them
ListInputs == IF "list" \in track THEN ListArgs ELSE BriefListArgs

Kept(words) == IF "list" \in track THEN words ELSE << >>

ListMailboxes ==
    /\ Ready
    /\ \E args \in ListInputs : \E order \in Orders(Subfolders) :
          Handled("LIST", Kept(args.words),
                  HandleList(cmds + 1, args, order, context), FALSE)

Lsub ==
    /\ Ready
    /\ \E args \in ListInputs : \E order \in Orders(Subfolders) :
          Handled("LSUB", Kept(args.words),
                  HandleLsub(cmds + 1, args, order, context), FALSE)

Status ==
    /\ Ready
    /\ \E wellformed \in BOOLEAN : \E mailbox_name \in {"INBOX", "Work"} :
          Handled("STATUS", << >>,
                  HandleStatus(cmds + 1, wellformed, mailbox_name, context), FALSE)

Uid ==
    /\ Ready
    /\ \E sub \in {"", "FETCH", "STORE"} : \E wellformed \in BOOLEAN :
       \E status \in {"OK", "BAD"} : \E count \in 0..1 :
          Handled(CASE sub = "FETCH" -> "UID FETCH"
                    [] sub = "STORE" -> "UID STORE"
                    [] OTHER -> "UID",
                  << >>,
                  HandleUid(cmds + 1, sub, wellformed, context, status, count), FALSE)

Fetch ==
    /\ Ready
    /\ \E wellformed \in BOOLEAN : \E status \in {"OK", "BAD"} : \E count \in 0..1 :
          Handled("FETCH", << >>,
                  HandleFetch(cmds + 1, wellformed, context, status, count), FALSE)

Other ==
    /\ Ready
    /\ \E word \in OtherWords :
          Handled(word, << >>, HandleOther(cmds + 1, word, context), FALSE)

StartTlsAllowedWhenAuthenticated(ctx) == ~ctx.tls_active

\* the two tests of _handle_starttls
StartTlsAllowed(ctx) == ~ctx.tls_active /\ ~Truthy(ctx.authenticated_user)

\* _handle_starttls: the tagged OK is written before start_tls is awaited
StartTls ==
    /\ Ready
    /\ Issued("STARTTLS")
    /\ cmds' = cmds + 1
    /\ IF StartTlsAllowed(context)
       THEN /\ out' = Append(out, Line(cmds + 1, TRUE, "OK"))
            /\ conn' = "handshake"
       ELSE /\ out' = Append(out, Line(cmds + 1, TRUE, "BAD"))
            /\ conn' = conn
    /\ UNCHANGED <<context, storage>>

Handshake ==
    /\ conn = "handshake"
    /\ context' = [context EXCEPT !.tls_active = TRUE]
    /\ conn' = "reading"
    /\ UNCHANGED <<out, cmds, last, storage>>

\* _handle_authenticate up to the continuation prompt: args is the mechanism
\* the client names
Authenticate ==
    /\ Ready
    /\ cmds' = cmds + 1
    /\ Issued("AUTHENTICATE")
    /\ \E args \in {"PLAIN", "CRAM-MD5"} :
          IF Truthy(context.authenticated_user) \/ args # "PLAIN"
          THEN /\ out' = Append(out, Line(cmds + 1, TRUE, "NO"))
               /\ conn' = conn
          ELSE /\ out' = Append(out, Line(cmds + 1, FALSE, "+"))
               /\ conn' = "credentials"
    /\ UNCHANGED <<context, storage>>

\* LOGIN username password: _handle_authenticate is called with
\* "PLAIN " + args, which is never "PLAIN"; oracle tells whether the
\* authenticator accepts the pair
Login ==
    /\ Ready
    /\ cmds' = cmds + 1
    /\ \E username \in Authcids : \E oracle \in BOOLEAN :
          last' = [word |-> "LOGIN", arg |-> << >>, ctx |-> context,
                   authcid |-> username, oracle |-> oracle, raised |-> FALSE]
    /\ out' = Append(out, Line(cmds + 1, TRUE, "NO"))
    /\ UNCHANGED <<context, conn, storage>>

\* _handle_authenticate after the credentials line (or the end of input)
Credentials ==
    /\ conn = "credentials"
    /\ \E c \in {"accepted", "rejected", "malformed", "incomplete"} :
       \E authcid \in Authcids :
          /\ out' = Append(out, Line(cmds, TRUE,
                        CASE c = "accepted" -> "OK"
                          [] c = "rejected" -> "NO"
                          [] OTHER -> "BAD"))
          /\ context' = IF c = "accepted"
                        THEN [context EXCEPT !.authenticated_user = StoredUser(authcid)]
                        ELSE context
          /\ last' = IF c \in {"accepted", "rejected"}
                     THEN [last EXCEPT !.authcid = authcid, !.oracle = (c = "accepted")]
                     ELSE last
    /\ conn' = "reading"
    /\ UNCHANGED <<cmds, storage>>

NextSession ==
    \/ SendGreeting
    \/ MalformedLine
    \/ UndecodableLine
    \/ EndOfInput
    \/ ConnectionReset
    \/ Capability
    \/ Noop
    \/ Logout
    \/ Select
    \/ Examine
    \/ Close
    \/ ListMailboxes
    \/ Lsub
    \/ Status
    \/ Uid
    \/ Fetch
    \/ Other
    \/ StartTls
    \/ Handshake
    \/ Authenticate
    \/ Login
    \/ Credentials

SpecSession == InitSession /\ [][NextSession]_vars

\* sessions that authenticate and list their mailboxes
NextList ==
    \/ SendGreeting
    \/ Authenticate
    \/ Credentials
    \/ ListMailboxes

SpecList == InitList /\ [][NextList]_vars

NextFetch ==
    \/ \E o \in FetchOps : \E arg \in FetchArgs : BeginFetchAlone(1, o, arg)
    \/ \E t \in Tasks : SaveOpen(t)
    \/ \E t \in Tasks : SaveWrite(t)
    \/ \E t \in Tasks : List(t)
    \/ \E t \in Tasks : Pair(t)
    \/ \E t \in Tasks : Parse(t)
    \/ \E t \in Tasks : Target(t)
    \/ FileAppears
    \/ FileDisappears

SpecFetch == InitFetch /\ [][NextFetch]_vars

\* the first FETCH or UID FETCH of a mailbox, up to its response, message
\* files appearing and disappearing before, between its steps and after
NextFirstFetch ==
    \/ resp = NoResp /\ \E o \in FetchOps : \E arg \in FetchArgs : BeginFetchAlone(1, o, arg)
    \/ \E t \in Tasks : SaveOpen(t)
    \/ \E t \in Tasks : SaveWrite(t)
    \/ \E t \in Tasks : List(t)
    \/ \E t \in Tasks : Pair(t)
    \/ \E t \in Tasks : Parse(t)
    \/ \E t \in Tasks : Target(t)
    \/ FileAppears
    \/ FileDisappears

SpecFirstFetch == InitFirstFetch /\ [][NextFirstFetch]_vars

\* ------------------------------------------------------------- properties
Registries ==
    {tk[t].data : t \in {x \in Tasks : tk[x].data # None}} \cup {LoadUidData(file)}

FoldersIn(data) == {data.folders[f] : f \in DOMAIN data.folders}

Inverse(fd) ==
    /\ \A k \in DOMAIN fd.key_to_uid :
          fd.key_to_uid[k] \in DOMAIN fd.uid_to_key /\ fd.uid_to_key[fd.key_to_uid[k]] = k
    /\ \A u \in DOMAIN fd.uid_to_key :
          fd.uid_to_key[u] \in DOMAIN fd.key_to_uid /\ fd.key_to_uid[fd.uid_to_key[u]] = u

Persisted == LoadUidData(file)

HasFolder == FolderKey \in DOMAIN Persisted.folders

\* C1: in every state reached by reconciles and save_message calls, with
\* message files appearing and disappearing in between, key_to_uid and
\* uid_to_key of the folder are exact inverses, in every wrapper and in the file.
MapsInverse ==
    \A data \in Registries : \A fd \in FoldersIn(data) : Inverse(fd)

\* a reconcile has dropped a deleted key and a later message holds a UID
MapsInverseWitness ==
    /\ HasFolder
    /\ DOMAIN FolderOf(Persisted).key_to_uid # {}
    /\ FolderOf(Persisted).uidnext > Cardinality(DOMAIN FolderOf(Persisted).key_to_uid) + 1

\* C2: every UID in key_to_uid and uid_to_key is strictly less than the
\* folder's uidnext, and uidnext is at least 1.
UidsBelowNext ==
    \A data \in Registries : \A fd \in FoldersIn(data) :
        /\ fd.uidnext >= 1
        /\ \A u \in DOMAIN fd.uid_to_key : u < fd.uidnext
        /\ \A k \in DOMAIN fd.key_to_uid : fd.key_to_uid[k] < fd.uidnext

\* the file holds a message whose UID is uidnext - 1, after two assignments
UidsBelowNextWitness ==
    /\ HasFolder
    /\ FolderOf(Persisted).uidnext >= 3
    /\ (FolderOf(Persisted).uidnext - 1) \in DOMAIN FolderOf(Persisted).uid_to_key

\* C3: over the whole history of the folder no UID is given to two different
\* keys: a UID an operation has reported for one key is never reported for
\* another key.
UidNeverReused == ~clash

\* C4: a restart between two commands preserves UIDVALIDITY, UIDNEXT and
\* every message's UID: the registry read back from the file is the one the
\* last command before the restart held.
RestartPreserves ==
    before # NoView => Persisted = before

\* after a restart a command has loaded a registry with messages in it
RestartPreservesWitness ==
    /\ before # NoView
    /\ FolderKey \in DOMAIN before.folders
    /\ DOMAIN FolderOf(before).key_to_uid # {}
    /\ \E t \in Tasks : tk[t].data = before

\* C5: the uidvalidity chosen when the folder's entry is rebuilt (file
\* missing or unparseable) is strictly greater than every uidvalidity
\* written for the folder before.
RebuildRaisesValidity == rebuilt[1] > rebuilt[2]

\* C6: once an operation has reported UID u for a key, every later
\* operation, of any wrapper, reports the same u for that key or does not
\* report the key.
UidMonotone == ~moved

\* C7: at no await of save_message is there a file added by it whose key
\* has no entry in the persisted registry.
RegistryBeforeFile ==
    \A t \in Tasks :
        (tk[t].op = "save" /\ tk[t].key \in keys)
            => (HasFolder /\ tk[t].key \in DOMAIN FolderOf(Persisted).key_to_uid)

\* a task is between loading the registry and persisting what it did to it
InSection(t) == tk[t].pc \in {"list", "open", "write"}

\* C8: at most one load / mutate / persist section of the registry is in
\* progress at any time, over all wrappers of the process.
OneSectionAtATime ==
    Cardinality({t \in Tasks : InSection(t)}) <= 1

\* the 1-based index of uid among the listed (uid, key) pairs sorted by UID;
\* 0 for a uid that is not among them
IndexByUid(listed, uid) ==
    IF \E p \in listed : p[1] = uid
    THEN Cardinality({p \in listed : p[1] <= uid})
    ELSE 0

\* C9: in every line '* seq FETCH' of a FETCH or UID FETCH response, seq is
\* the 1-based index of the message among the folder's messages sorted by
\* UID ascending.
SeqIsIndexByUid ==
    \A i \in 1..Len(resp.lines) :
        resp.lines[i][1] = IndexByUid(resp.listed, resp.lines[i][2])

\* the command lines whose handling has ended
Answered == IF conn \in {"credentials", "handshake"} THEN cmds - 1 ELSE cmds

LinesOf(n) == SelectSeq(out, LAMBDA l : l.n = n)

\* C10: the responses of a command are written before any response of the
\* next command, its untagged responses precede its tagged completion, and
\* the tagged line is the last line written for the command.
TaggedLineLast ==
    /\ \A i, j \in 1..Len(out) :
          (i < j /\ out[i].n > 0 /\ out[j].n > 0) => out[i].n <= out[j].n
    /\ \A n \in 1..Answered :
          LinesOf(n) # << >> =>
             /\ LinesOf(n)[Len(LinesOf(n))].tagged
             /\ \A i \in 1..(Len(LinesOf(n)) - 1) : ~LinesOf(n)[i].tagged

\* C11: the UIDNEXT a SELECT reports is the uidnext of the registry after the
\* keys present at its listing are reconciled: one more than the largest UID
\* then mapped, or the stored uidnext if that is larger.
SelectReportsUidNext ==
    sel.done => sel.uidnext = sel.expect

\* C12: the UIDNEXT values one session is given for the folder never
\* decrease, whatever other sessions and writers do in between.
UidNextNeverDrops == ~obs.dropped

MailboxCommands == {"LIST", "LSUB", "STATUS", "SELECT", "EXAMINE", "CREATE"}

\* the answer to the last line read is a lone tagged NO
RejectedNo == LinesOf(cmds) = <<Line(cmds, TRUE, "NO")>>

\* C13: in the Unauthenticated state LIST, LSUB, STATUS, SELECT, EXAMINE and
\* CREATE are answered by a lone tagged NO and leave the context as it was;
\* in the other states the server knows each of them.
MailboxCommandsGuarded ==
    last.word \in MailboxCommands =>
       IF ~Truthy(last.ctx.authenticated_user)
       THEN RejectedNo /\ context = last.ctx
       ELSE last.word \notin Unrecognized

SelectedCommands ==
    {"FETCH", "UID FETCH", "STORE", "UID STORE", "SEARCH", "CLOSE", "EXPUNGE", "IDLE"}

\* the context the last line met had a folder selected
WasSelected ==
    Truthy(last.ctx.authenticated_user) /\ Truthy(last.ctx.selected_folder)

\* C14: FETCH, UID FETCH, STORE, UID STORE, SEARCH, CLOSE, EXPUNGE and IDLE
\* issued while no folder is selected are answered by a lone tagged NO and
\* leave the context as it was.
SelectedCommandsGuarded ==
    (last.word \in SelectedCommands /\ ~WasSelected) =>
       RejectedNo /\ context = last.ctx

\* s without the suffix, when s ends with it
RemoveSuffix(s, suffix) ==
    IF Len(s) >= Len(suffix) /\ SubSeq(s, Len(s) - Len(suffix) + 1, Len(s)) = suffix
    THEN SubSeq(s, 1, Len(s) - Len(suffix))
    ELSE s

\* the authcid without a trailing '@<hostname>'
SansHost(authcid) ==
    Unspell(RemoveSuffix(Spell(authcid), Spell("@") \o Spell(host_name)))

\* the transitions of the authenticated user, whatever value is stored
UserSetOnlyOnSuccess ==
    /\ context.authenticated_user # last.ctx.authenticated_user =>
          /\ last.ctx.authenticated_user = Unset
          /\ last.word = "AUTHENTICATE"
          /\ last.oracle
    /\ (last.word \in {"AUTHENTICATE", "LOGIN"} /\ Truthy(last.ctx.authenticated_user)) =>
          RejectedNo /\ context = last.ctx

\* C15: the authenticated user changes only from unset to the supplied
\* authcid (without '@<hostname>'), in an Unauthenticated session whose
\* credentials the oracle accepted; AUTHENTICATE and LOGIN of an
\* authenticated session are answered NO and change nothing.
UserSetOnlyToAuthcid ==
    /\ UserSetOnlyOnSuccess
    /\ context.authenticated_user # last.ctx.authenticated_user =>
          context.authenticated_user = SansHost(last.authcid)

\* C17: after a successful authentication the stored user is the authcid
\* with exactly a trailing '@<hostname>' removed, and the authcid itself when
\* it has no such suffix.
StoredUserSansHost ==
    (last.word = "AUTHENTICATE" /\ last.oracle) =>
       context.authenticated_user = SansHost(last.authcid)

\* C16: LOGIN issued in the Unauthenticated state with credentials the
\* oracle accepts leaves the session authenticated as that user, as
\* AUTHENTICATE PLAIN with the same credentials does.
LoginAuthenticates ==
    (last.word = "LOGIN" /\ last.oracle /\ ~Truthy(last.ctx.authenticated_user)) =>
       context.authenticated_user = StoredUser(last.authcid)

\* C18: whatever the state LOGOUT met, its answer is '* BYE' followed by the
\* tagged OK, the connection is closed, and nothing more is read or written
\* on a closed connection.
LogoutTerminates ==
    /\ [](last.word = "LOGOUT" =>
            /\ LinesOf(cmds) = <<Line(cmds, FALSE, "BYE"), Line(cmds, TRUE, "OK")>>
            /\ SubSeq(out, Len(out) - 1, Len(out)) = LinesOf(cmds)
            /\ conn = "closed")
    /\ [][conn # "closed"]_vars

LogoutTerminatesWitness ==
    /\ last.word = "LOGOUT"
    /\ Truthy(last.ctx.selected_folder)
    /\ conn = "closed"
    /\ out[Len(out)] = Line(cmds, TRUE, "OK")

Untagged(lines) == SelectSeq(lines, LAMBDA l : ~l.tagged)

\* the last line read was a SELECT or EXAMINE that succeeded
Selected ==
    /\ last.word \in {"SELECT", "EXAMINE"}
    /\ \E i \in 1..Len(LinesOf(cmds)) : LinesOf(cmds)[i].text = "UIDNEXT"

\* C20: a successful EXAMINE writes the untagged lines of a SELECT of the
\* folder and then the tagged OK [READ-ONLY], and leaves the folder selected
\* and the read-only flag true; a successful SELECT leaves the flag false.
ExamineLikeSelect ==
    /\ (Selected /\ last.word = "EXAMINE") =>
          /\ \E unseen \in BOOLEAN :
                LinesOf(cmds) = Untagged(SelectLines(cmds, unseen))
                                   \o <<Line(cmds, TRUE, "OK [READ-ONLY]")>>
          /\ context.selected_folder = last.arg[1]
          /\ context.read_only
    /\ (Selected /\ last.word = "SELECT") => ~context.read_only

\* the items after which a FETCH is to leave the message seen: RFC822 and
\* the BODY[...] forms other than BODY.PEEK[...]
WillMarkSeen(items) ==
    \E i \in 1..Len(items) : UpperItem(items[i]) \in {"RFC822", "BODY[]"}

\* C21: after a FETCH of RFC822 or of a BODY[...] item that is not
\* BODY.PEEK, every message the response returned carries the S flag
BodyFetchSetsSeen ==
    WillMarkSeen(reply.items) =>
        \A i \in 1..Len(reply.lines) : "S" \in mail[reply.lines[i].key].flags

\* C22: a FETCH whose items are BODY.PEEK[...] or are not body items
\* (FLAGS, UID, sizes, ...) changes neither the flags nor the subdirectory
\* of any message
PeekLeavesFlags ==
    [][(reply' # reply /\ ~WillMarkSeen(reply'.items)) => mail' = mail]_vars

\* a BODY.PEEK[] FETCH has returned a message that is still unseen in new/
PeekLeavesFlagsWitness ==
    /\ reply.status = "OK"
    /\ reply.items = <<"BODY.PEEK[]">>
    /\ \E i \in 1..Len(reply.lines) :
          mail[reply.lines[i].key] = [flags |-> {}, subdir |-> "new"]

\* the UID items of a response line, whatever their letter case
UidItems(line) ==
    {i \in 1..Len(line.items) : UpperItem(line.items[i].item) = "UID"}

\* C23: every response line of a UID FETCH has exactly one UID item, and it
\* carries the UID of the message the line is about
OneUidItemPerLine ==
    reply.is_uid =>
        \A i \in 1..Len(reply.lines) :
            /\ Cardinality(UidItems(reply.lines[i])) = 1
            /\ \A j \in UidItems(reply.lines[i]) :
                  reply.lines[i].items[j].uid = reply.lines[i].uid

\* some requested item produces output, so that a fetched message gets a line
Answerable(items) ==
    \E i \in 1..Len(Macros(items)) :
        UpperItem(Macros(items)[i]) = "UID" \/ Implemented(Macros(items)[i])

\* the sequence numbers of the response lines, in the order of the lines
ReplySeqs == [i \in 1..Len(reply.lines) |-> reply.lines[i].seq]

\* the message of a line is the seq-th of the folder in ascending UID order
LineAtItsRank(line) ==
    /\ line.key \in keys
    /\ FolderOf(Persisted).key_to_uid[line.key] = line.uid
    /\ Cardinality({k \in keys : FolderOf(Persisted).key_to_uid[k] <= line.uid}) = line.seq

\* C24: with n messages in the folder, FETCH * answers with the line of
\* message n alone and FETCH 1:* with the lines of messages 1..n in
\* ascending order; for n = 0, FETCH 1:* has no line and completes OK
StarIsMessageCount ==
    (reply.status # "none" /\ ~reply.is_uid /\ Answerable(reply.items)) =>
        LET n == Cardinality(keys)
        IN  /\ (reply.arg = <<<<Star>>>> /\ n > 0) =>
                  /\ reply.status = "OK"
                  /\ ReplySeqs = <<n>>
            /\ reply.arg = <<<<Num(1), Star>>>> =>
                  /\ reply.status = "OK"
                  /\ ReplySeqs = [i \in 1..n |-> i]
            /\ \A i \in 1..Len(reply.lines) : LineAtItsRank(reply.lines[i])

\* FETCH * on a folder of two messages has answered with message 2
StarIsMessageCountWitness ==
    /\ ~reply.is_uid
    /\ reply.arg = <<<<Star>>>>
    /\ Cardinality(keys) = 2
    /\ ReplySeqs = <<2>>

\* the sequence number, UID and key of every line, in the order of the lines
Visited(lines) ==
    [i \in 1..Len(lines) |-> <<lines[i].seq, lines[i].uid, lines[i].key>>]

\* C25: UID FETCH <the UIDs FETCH 1:* (UID) returned> (FLAGS), sent right
\* after it with no change of the folder in between, has lines for the same
\* messages with the same sequence numbers in the same order
UidFetchVisitsSame ==
    reply.prev # << >> =>
        /\ reply.status = "OK"
        /\ Visited(reply.lines) = Visited(reply.prev)

\* the pair of commands has run on a folder of two messages of which the
\* one delivered later has the smaller UID
UidFetchVisitsSameWitness ==
    /\ Len(reply.prev) = 2
    /\ Len(reply.lines) = 2
    /\ reply.lines[1].key > reply.lines[2].key

\* C28: a FETCH or UID FETCH whose set does not parse is answered with a
\* tagged BAD and no FETCH line, whatever the folder contains
InvalidSetIsBad ==
    (reply.status # "none" /\ \E i \in 1..Len(reply.arg) : PartInvalid(reply.arg[i])) =>
        /\ reply.status = "BAD"
        /\ reply.lines = << >>

\* the folders of the mailbox: INBOX and the subfolders
Folders == {"INBOX"} \cup Subfolders

\* the pattern ends in a wildcard
Wildcard(pattern) ==
    Chars(pattern) # << >> /\ Chars(pattern)[Len(Chars(pattern))] \in {"*", "%"}

\* the folders whose name begins with what precedes the wildcard
Matching(pattern) ==
    {f \in Folders :
        \A i \in 1..(Len(Chars(pattern)) - 1) :
            i <= Len(Chars(f)) /\ Chars(f)[i] = Chars(pattern)[i]}

\* the LIST lines of the answer that are about folder f
LinesAbout(f) ==
    SelectSeq(LinesOf(cmds), LAMBDA l : ~l.tagged /\ l.text = "LIST" /\ l.name = f)

\* a LIST of an authenticated session with a reference name and a mailbox
\* name has been answered
ListAnswered ==
    /\ last.word = "LIST"
    /\ Truthy(last.ctx.authenticated_user)
    /\ Len(last.arg) = 2
    /\ ~last.raised

\* C26: LIST with a pattern ending in '*' or '%' has exactly one LIST line
\* for each folder of {INBOX} and the subfolders whose name begins with the
\* prefix before the wildcard, and no other line before its tagged OK; LIST
\* with an empty pattern has the root line only; LIST with '..' in the
\* reference or the pattern is answered NO without any LIST line
ListMatchesPrefix ==
    ListAnswered =>
        LET answer == LinesOf(cmds)
            dots == HasDotDot(Chars(last.arg[1])) \/ HasDotDot(Chars(last.arg[2]))
        IN  /\ dots => answer = <<Line(cmds, TRUE, "NO")>>
            /\ (~dots /\ last.arg[2] = "") =>
                  answer = <<ListLine(cmds, ""), Line(cmds, TRUE, "OK")>>
            /\ (~dots /\ last.arg[1] = "" /\ Wildcard(last.arg[2])) =>
                  /\ answer[Len(answer)] = Line(cmds, TRUE, "OK")
                  /\ Len(answer) = Cardinality(Matching(last.arg[2])) + 1
                  /\ \A f \in Matching(last.arg[2]) : Len(LinesAbout(f)) = 1

\* LIST "" "S%" has listed Sent alone
ListMatchesPrefixWitness ==
    /\ ListAnswered
    /\ last.arg = <<"", "S%">>
    /\ LinesOf(cmds) = <<ListLine(cmds, "Sent"), Line(cmds, TRUE, "OK")>>

\* C27: a command word that is not a supported command is answered with a
\* tagged BAD alone and leaves the context as it was
UnknownCommandIsBad ==
    last.word \in OtherWords =>
        /\ LinesOf(cmds) = <<Line(cmds, TRUE, "BAD")>>
        /\ context = last.ctx
        /\ ~last.raised

\* the step writes the untagged BAD of a line that is not a command
BadLineWritten == out' = Append(out, Line(0, FALSE, "BAD"))

\* C29: after the '* BAD' for an undecodable or malformed line the
\* connection stays open in the same state and the next line is read
BadLineKeepsSession ==
    [][BadLineWritten => (conn' = "reading" /\ context' = context)]_vars

\* the step leaves the read loop: LOGOUT was handled or a BYE was written
LoopLeft ==
    \/ last'.word = "LOGOUT" /\ cmds' = cmds + 1
    \/ Len(out') > Len(out) /\ out'[Len(out')].text = "BYE"
    \/ Len(out') > Len(out) + 1 /\ out'[Len(out') - 1].text = "BYE"

\* C30: when a handler raises, the answer to the command is '* BYE Server
\* error' alone and the connection is closed; every step that leaves the read
\* loop closes the connection, and a closed connection takes no further step
NoExceptionEscapes ==
    /\ [](last.raised =>
            /\ LinesOf(cmds) = <<Line(cmds, FALSE, "BYE")>>
            /\ out[Len(out)] = Line(cmds, FALSE, "BYE")
            /\ context = last.ctx
            /\ conn = "closed")
    /\ [][LoopLeft => conn' = "closed"]_vars
    /\ [][conn = "closed" => conn' = "closed"]_vars

\* a handler of an authenticated session has raised
NoExceptionEscapesWitness ==
    /\ last.raised
    /\ Truthy(last.ctx.authenticated_user)
    /\ conn = "closed"

\* the step in which the FETCH of the first task returns a response other
\* than the BAD of a set that does not parse
FetchReturns ==
    /\ tk[1].op \in FetchOps
    /\ tk'[1].op = "idle"
    /\ resp'.status # "BAD"

\* C31: the FETCH that returns has lines for exactly those of its targets
\* whose message file is still in the folder, in the order of the targets,
\* and completes with OK; the task is free for the next command
VanishedMessageSkipped ==
    [][FetchReturns =>
         /\ resp'.status = "OK"
         /\ resp'.lines = SelectSeq(resp'.targets, LAMBDA g : g[3] \in keys)
         /\ tk'[1] = Idle]_vars

\* a FETCH has returned OK with the line of one target and without the line
\* of another, whose file had been removed
VanishedMessageSkippedWitness ==
    /\ resp.status = "OK"
    /\ Len(resp.lines) >= 1
    /\ Len(resp.targets) > Len(resp.lines)

\* C39: every line of a FETCH or UID FETCH has a sequence number from 1 to
\* the number of messages the command listed
SeqWithinFolder ==
    \A i \in 1..Len(resp.lines) :
        /\ 1 <= resp.lines[i][1]
        /\ resp.lines[i][1] <= Cardinality(resp.listed)

\* the last line read was the word, met by a session with a folder selected
SelectedIssued(word) == last.word = word /\ WasSelected

\* the lines of the last command that carry its tag
TaggedOf(n) == SelectSeq(LinesOf(n), LAMBDA l : l.tagged)

\* C32: the tagged completion of an IDLE is not written when the IDLE line
\* is read: it waits for the DONE line, and a line DONE read while no IDLE is
\* pending is not answered with an OK
IdleAwaitsDone ==
    /\ SelectedIssued("IDLE") => TaggedOf(cmds) = << >>
    /\ \A i \in 1..Len(out) : out[i].n = 0 /\ i > 1 => out[i].text # "OK"

\* C33: CREATE of an authenticated session is answered with a lone tagged OK
\* or, for a name that exists, a lone tagged NO that changes nothing
CreateAnswered ==
    (last.word = "CREATE" /\ Truthy(last.ctx.authenticated_user)) =>
        /\ LinesOf(cmds) \in {<<Line(cmds, TRUE, "OK")>>, <<Line(cmds, TRUE, "NO")>>}
        /\ context = last.ctx

\* the last line read was a SELECT or EXAMINE of an authenticated session
\* that named a folder the mailbox root does not have
MissingSelected ==
    /\ last.word \in {"SELECT", "EXAMINE"}
    /\ Truthy(last.ctx.authenticated_user)
    /\ Len(last.arg) = 1
    /\ Upper(last.arg[1]) # "INBOX"
    /\ last.arg[1] \notin Subfolders

\* C34: SELECT or EXAMINE of a folder that does not exist is answered with
\* a lone tagged NO, the handler does not raise, and the selected folder and
\* the read-only flag are as the command met them
SelectMissingIsNo ==
    MissingSelected =>
        /\ RejectedNo
        /\ ~last.raised
        /\ context.selected_folder = last.ctx.selected_folder
        /\ context.read_only = last.ctx.read_only

\* C38: a folder is selected only in a session that is authenticated, and
\* CLOSE of a session with a folder selected is answered OK and leaves the
\* context as it was but for the selected folder, which is unset
SelectedImpliesAuthenticated ==
    /\ Truthy(context.selected_folder) => Truthy(context.authenticated_user)
    /\ SelectedIssued("CLOSE") =>
          /\ LinesOf(cmds) = <<Line(cmds, TRUE, "OK")>>
          /\ context = [last.ctx EXCEPT !.selected_folder = Unset]
          /\ context.authenticated_user = last.ctx.authenticated_user
          /\ Truthy(context.authenticated_user)

\* a CLOSE has returned a session with a folder selected to the
\* authenticated state
SelectedImpliesAuthenticatedWitness ==
    /\ SelectedIssued("CLOSE")
    /\ context.selected_folder = Unset
    /\ Truthy(context.authenticated_user)

\* C40: a FETCH or UID FETCH of a session whose SELECT or EXAMINE succeeded
\* does not raise and ends with a tagged line, however the folder name was
\* spelled
FetchAfterSelectCompletes ==
    (last.word \in {"FETCH", "UID FETCH"} /\ WasSelected) =>
        /\ ~last.raised
        /\ Len(TaggedOf(cmds)) = 1
        /\ LinesOf(cmds)[Len(LinesOf(cmds))].tagged

\* the step in which the gather of a SELECT whose reconcile changed the
\* registry returns
ChangedSelectReturns == sel.running /\ sel'.done /\ sel.changed

\* C35: when the SELECT whose reconcile assigned or dropped a mapping
\* returns, the registry file holds the folder entry as the reconcile left it
ReconcilePersisted ==
    [][ChangedSelectReturns =>
         /\ file.st = "json"
         /\ FolderKey \in DOMAIN LoadUidData(file).folders
         /\ FolderOf(LoadUidData(file)) = FolderOf(heap[co[2].ref])]_vars

\* C36: the k of the UNSEEN line is the sequence number, in the order of
\* the UIDs, of the first message without the S flag, and there is no UNSEEN
\* line (None) when the folder has no such message
FirstUnseenInUidOrder ==
    first_unseen # NotAsked =>
        LET fd == FolderOf(LoadUidData(file))
            message_pairs == SortedPairs({<<fd.key_to_uid[k], k>> : k \in keys})
            lacking == {i \in 1..Len(message_pairs) :
                           "S" \notin mail[message_pairs[i][2]].flags}
        IN  IF lacking = {}
            THEN first_unseen.seq = 0
            ELSE /\ first_unseen.seq \in lacking
                 /\ \A i \in lacking : first_unseen.seq <= i

\* the names of the envelope's recipients other than the sender
OtherRecipients(e) ==
    {NameOf(e.rcpt_tos[i]) : i \in 1..Len(e.rcpt_tos)} \ {NameOf(e.mail_from)}

\* the folders after one copy is saved in the sender's Sent folder and one
\* in the INBOX of each recipient other than the sender
OneCopyEach(bx, e) ==
    [b \in Users \X SmtpFolders |->
        IF b = <<NameOf(e.mail_from), "Sent">>
           \/ (b[2] = "INBOX" /\ b[1] \in OtherRecipients(e))
        THEN bx[b] + 1
        ELSE bx[b]]

\* C37: an accepted DATA adds one copy to the sender's Sent folder, one to
\* the INBOX of each recipient other than the sender, and none elsewhere
DataSavedForEachRecipient ==
    [][boxes' # boxes => boxes' = OneCopyEach(boxes, envelope')]_vars
====
